---------------------------- MODULE Spec2Model ----------------------------
(***************************************************************************)
(* SRT subtitle importer/exporter for the Blender video sequence editor    *)
(* (src/__init__.py): the timecode codec parse_srt_time/format_srt_time,   *)
(* the import operator SEQUENCER_OT_ImportSRT.execute and the export       *)
(* operator SEQUENCER_OT_ExportSRT.execute, over a model of the host       *)
(* timeline and of the output file.                                        *)
(*                                                                         *)
(* Python floats are IEEE-754 binary64.  They are modelled exactly: a      *)
(* float is a record [s, m, e] of value (-1)^s * m * 2^e whose mantissa m  *)
(* is a natural number of exactly 53 bits (or zero), kept as a sequence of *)
(* base-2^15 limbs, least significant first, because the model checker's   *)
(* integers are 32 bits wide.  Every arithmetic operation rounds to        *)
(* nearest, ties to even, as the hardware does.                            *)
(***************************************************************************)
EXTENDS Integers, Sequences, FiniteSets, TLC

(***************************************************************************)
(* Natural numbers of any size (Python int, and float mantissas).          *)
(***************************************************************************)
Abs(n) == IF n < 0 THEN -n ELSE n
Min(a, b) == IF a < b THEN a ELSE b
Max(a, b) == IF a > b THEN a ELSE b

Base == 32768
LimbBits == 15

Pow2Table == <<1, 2, 4, 8, 16, 32, 64, 128, 256, 512, 1024, 2048, 4096, 8192, 16384, 32768>>
\* 2^n for 0 <= n <= LimbBits
Pow2(n) == Pow2Table[n + 1]

RECURSIVE BNorm(_)
BNorm(a) ==
    IF a = <<>> THEN <<>>
    ELSE IF a[Len(a)] = 0 THEN BNorm(SubSeq(a, 1, Len(a) - 1))
    ELSE a

RECURSIVE BFromInt(_)
BFromInt(n) == IF n = 0 THEN <<>> ELSE <<n % Base>> \o BFromInt(n \div Base)

RECURSIVE BToInt(_)
BToInt(a) == IF a = <<>> THEN 0 ELSE a[1] + Base * BToInt(Tail(a))

BHead(a) == IF a = <<>> THEN 0 ELSE a[1]
BTail(a) == IF a = <<>> THEN <<>> ELSE Tail(a)

RECURSIVE BAddC(_, _, _)
BAddC(a, b, c) ==
    IF a = <<>> /\ b = <<>> THEN (IF c = 0 THEN <<>> ELSE <<c>>)
    ELSE LET x == BHead(a) + BHead(b) + c
         IN  <<x % Base>> \o BAddC(BTail(a), BTail(b), x \div Base)

BAdd(a, b) == BAddC(a, b, 0)

RECURSIVE BSubC(_, _, _)
BSubC(a, b, c) ==
    IF a = <<>> THEN <<>>
    ELSE LET x == a[1] - BHead(b) - c
         IN  <<x % Base>> \o BSubC(Tail(a), BTail(b), IF x < 0 THEN 1 ELSE 0)

\* a - b for a >= b
BSub(a, b) == BNorm(BSubC(a, b, 0))

RECURSIVE BCmpFrom(_, _, _)
BCmpFrom(a, b, i) ==
    IF i = 0 THEN 0
    ELSE IF a[i] < b[i] THEN -1
    ELSE IF a[i] > b[i] THEN 1
    ELSE BCmpFrom(a, b, i - 1)

\* -1, 0, 1 as a < b, a = b, a > b
BCmp(a, b) ==
    IF Len(a) < Len(b) THEN -1
    ELSE IF Len(a) > Len(b) THEN 1
    ELSE BCmpFrom(a, b, Len(a))

RECURSIVE BMulSmallC(_, _, _)
BMulSmallC(a, k, c) ==
    IF a = <<>> THEN (IF c = 0 THEN <<>> ELSE <<c>>)
    ELSE LET x == a[1] * k + c
         IN  <<x % Base>> \o BMulSmallC(Tail(a), k, x \div Base)

\* a * k for 0 <= k < Base
BMulSmall(a, k) == IF k = 0 THEN <<>> ELSE BMulSmallC(a, k, 0)

RECURSIVE BMul(_, _)
BMul(a, b) ==
    IF a = <<>> \/ b = <<>> THEN <<>>
    ELSE LET rest == BMul(a, Tail(b))
         IN  BAdd(BMulSmall(a, b[1]), IF rest = <<>> THEN <<>> ELSE <<0>> \o rest)

RECURSIVE Zeros(_)
Zeros(n) == IF n = 0 THEN <<>> ELSE <<0>> \o Zeros(n - 1)

\* a * 2^n
BShl(a, n) ==
    IF a = <<>> THEN <<>>
    ELSE Zeros(n \div LimbBits) \o BMulSmall(a, Pow2(n % LimbBits))

\* Short division of a by k, 0 < k <= Base, from limb i down, q and r the quotient
\* and remainder of the limbs above i (x >= 0 always: the test makes each step
\* complete before the next)
RECURSIVE BDivSmallFrom(_, _, _, _, _)
BDivSmallFrom(a, k, i, q, r) ==
    IF i = 0 THEN <<q, r>>
    ELSE LET x == r * Base + a[i]
         IN  IF x >= 0 THEN BDivSmallFrom(a, k, i - 1, <<x \div k>> \o q, x % k)
             ELSE <<q, r>>

NormQuotient(qr) == <<BNorm(qr[1]), qr[2]>>

\* <<quotient, remainder (an integer)>> of a by k, 0 < k <= Base
BDivSmall(a, k) == NormQuotient(BDivSmallFrom(a, k, Len(a), <<>>, 0))

\* floor(a / 2^n)
BShr(a, n) ==
    LET whole == n \div LimbBits
    IN  IF whole >= Len(a) THEN <<>>
        ELSE BDivSmall(SubSeq(a, whole + 1, Len(a)), Pow2(n % LimbBits))[1]

\* a mod 2^n
BLowBits(a, n) == BSub(a, BShl(BShr(a, n), n))

RECURSIVE BitLenInt(_)
BitLenInt(n) == IF n = 0 THEN 0 ELSE 1 + BitLenInt(n \div 2)

BBitLen(a) == IF a = <<>> THEN 0 ELSE LimbBits * (Len(a) - 1) + BitLenInt(a[Len(a)])

BIsOdd(a) == a # <<>> /\ a[1] % 2 = 1

\* The largest d <= qhat with b * d <= x
RECURSIVE BDigit(_, _, _)
BDigit(x, b, qhat) ==
    IF BCmp(BMulSmall(b, qhat), x) <= 0 THEN qhat ELSE BDigit(x, b, qhat - 1)

\* The two leading limbs of x as seen from a divisor of n limbs
BTop2(x, n) ==
    (IF Len(x) > n THEN x[n + 1] ELSE 0) * Base + (IF Len(x) >= n THEN x[n] ELSE 0)

\* Long division of a by b from limb i down, q and r the quotient and remainder of
\* the limbs above i: each quotient limb d is estimated from the leading limbs (b
\* has two limbs or more, the top one >= Base / 2, so the estimate is at most 2 too
\* large).  d >= 0 always: the tests make each step complete before the next.
RECURSIVE BDivModFrom(_, _, _, _, _)
BDivModDigit(a, b, i, q, x, d) ==
    LET r2 == BSub(x, BMulSmall(b, d))
        q2 == BNorm(<<d>> \o q)
    IN  IF d >= 0 /\ Len(r2) >= 0 /\ Len(q2) >= 0
        THEN BDivModFrom(a, b, i - 1, q2, r2)
        ELSE <<q, x>>

BDivModStep(a, b, i, q, x) ==
    BDivModDigit(a, b, i, q, x,
                 BDigit(x, b, Min(BTop2(x, Len(b)) \div b[Len(b)], Base - 1)))

BDivModFrom(a, b, i, q, r) ==
    IF i = 0 THEN <<q, r>>
    ELSE BDivModStep(a, b, i, q, BNorm(<<a[i]>> \o r))

BDivModLong(an, bn, sh) ==
    LET qr == BDivModFrom(an, bn, Len(an), <<>>, <<>>)
    IN  <<qr[1], BShr(qr[2], sh)>>

BigRemainder(qr) == <<qr[1], BFromInt(qr[2])>>

\* <<quotient, remainder>> of a by b # 0
BDivModBy(a, b, sh) ==
    IF Len(b) = 1 THEN BigRemainder(BDivSmall(a, b[1]))
    ELSE BDivModLong(BShl(a, sh), BShl(b, sh), sh)

BDivMod(a, b) == BDivModBy(a, b, LimbBits - BitLenInt(b[Len(b)]))

RECURSIVE TrailingZerosInt(_)
TrailingZerosInt(n) == IF n % 2 = 1 THEN 0 ELSE 1 + TrailingZerosInt(n \div 2)

\* The number of trailing zero bits of a # 0
RECURSIVE BTrailingZeros(_)
BTrailingZeros(a) ==
    IF a[1] = 0 THEN LimbBits + BTrailingZeros(Tail(a)) ELSE TrailingZerosInt(a[1])

(***************************************************************************)
(* Python float: IEEE-754 binary64, round to nearest, ties to even.  The   *)
(* magnitudes that occur here (seconds, frames, frame rates) are far from  *)
(* the overflow and subnormal ranges, which are therefore not modelled.    *)
(***************************************************************************)
MantBits == 53

\* q rounded up when the bits dropped from it compare as c to one half
RoundToEven(q, c) == IF c > 0 \/ (c = 0 /\ BIsOdd(q)) THEN BAdd(q, <<1>>) ELSE q

\* The float of mantissa q, of MantBits bits or one more after a carry
FPack(s, q, e) ==
    IF BBitLen(q) > MantBits THEN [s |-> s, m |-> BShr(q, 1), e |-> e + 1]
    ELSE [s |-> s, m |-> q, e |-> e]

\* m, of more than MantBits bits, with its sh lowest bits rounded away
FRoundOff(s, m, e, sh) ==
    FPack(s, RoundToEven(BShr(m, sh), BCmp(BLowBits(m, sh), BShl(<<1>>, sh - 1))),
          e + sh)

FRoundBits(s, m, e, bl) ==
    IF bl <= MantBits
    THEN [s |-> s, m |-> BShl(m, MantBits - bl), e |-> e - (MantBits - bl)]
    ELSE FRoundOff(s, m, e, bl - MantBits)

\* The float nearest to (-1)^s * m * 2^e, for any natural m.
FRound(s, m, e) ==
    IF m = <<>> THEN [s |-> s, m |-> <<>>, e |-> 0]
    ELSE FRoundBits(s, m, e, BBitLen(m))

\* float(n) for a Python int n
FromInt(n) == FRound(IF n < 0 THEN 1 ELSE 0, BFromInt(Abs(n)), 0)

FZero == [s |-> 0, m |-> <<>>, e |-> 0]
FIsZero(x) == x.m = <<>>
\* x < 0 (false of -0.0)
FLt0(x) == x.s = 1 /\ x.m # <<>>
\* -x (of 0.0 it is -0.0)
FNeg(x) == [x EXCEPT !.s = 1 - x.s]
\* abs(x)
FAbs(x) == [x EXCEPT !.s = 0]

\* x + y for the mantissas mx, my of x, y at the common exponent e0, c their order
FAddSigned(x, y, mx, my, c, e0) ==
    IF x.s # y.s /\ c = 0 THEN FZero
    ELSE FRound(IF x.s = y.s \/ c > 0 THEN x.s ELSE y.s,
                IF x.s = y.s THEN BAdd(mx, my)
                ELSE IF c > 0 THEN BSub(mx, my) ELSE BSub(my, mx),
                e0)

FAddAligned(x, y, mx, my, e0) == FAddSigned(x, y, mx, my, BCmp(mx, my), e0)

FAddAt(x, y, e0) == FAddAligned(x, y, BShl(x.m, x.e - e0), BShl(y.m, y.e - e0), e0)

\* x + y
FAdd(x, y) ==
    IF FIsZero(x) /\ FIsZero(y) THEN [FZero EXCEPT !.s = IF x.s = 1 /\ y.s = 1 THEN 1 ELSE 0]
    ELSE IF FIsZero(x) THEN y
    ELSE IF FIsZero(y) THEN x
    ELSE FAddAt(x, y, Min(x.e, y.e))

\* x - y
FSub(x, y) == FAdd(x, FNeg(y))

\* x < y
FLess(x, y) == FLt0(FSub(x, y))

\* x * y
FMul(x, y) ==
    IF FIsZero(x) \/ FIsZero(y) THEN [FZero EXCEPT !.s = IF x.s = y.s THEN 0 ELSE 1]
    ELSE FRound(IF x.s = y.s THEN 0 ELSE 1, BMul(x.m, y.m), x.e + y.e)

\* The float nearest to (-1)^s * (q + f) * 2^e, qr = <<q, r>> a quotient and its
\* remainder, f strictly between 0 and 1 when r # 0: a sticky bit stands for f
FRoundQuotient(s, qr, e) ==
    IF Len(qr[1]) >= 0 /\ Len(qr[2]) >= 0
    THEN FRound(s, IF qr[2] = <<>> THEN BMulSmall(qr[1], 2)
                   ELSE BAdd(BMulSmall(qr[1], 2), <<1>>), e - 1)
    ELSE FZero

\* x / y for y # 0, t the trailing zero bits of y's mantissa: the quotient to 57
\* bits or more, then rounded
FDivOdd(x, y, t) ==
    FRoundQuotient(IF x.s = y.s THEN 0 ELSE 1,
                   BDivMod(BShl(x.m, 56), BShr(y.m, t)), x.e - 56 - (y.e + t))

\* x / y for y # 0
FDiv(x, y) ==
    IF FIsZero(x) THEN [FZero EXCEPT !.s = IF x.s = y.s THEN 0 ELSE 1]
    ELSE FDivOdd(x, y, BTrailingZeros(y.m))

\* int(x): truncation toward zero, a Python int
FTrunc(x) ==
    (1 - 2 * x.s) * BToInt(IF x.e >= 0 THEN BShl(x.m, x.e) ELSE BShr(x.m, -x.e))

\* X mod (odd * 2^k) = ((X div 2^k) mod odd) * 2^k + X mod 2^k, at exponent e0
FModParts(X, k, odd, e0) ==
    FRound(0, BAdd(BShl(BDivMod(BShr(X, k), odd)[2], k), BLowBits(X, k)), e0)

FModAt(x, w, t, e0) ==
    FModParts(BShl(x.m, x.e - e0), w.e + t - e0, BShr(w.m, t), e0)

\* math.fmod(x, w) for x >= 0 and w > 0: exact
FMod(x, w) ==
    IF FIsZero(x) THEN FZero
    ELSE FModAt(x, w, BTrailingZeros(w.m), Min(x.e, w.e + BTrailingZeros(w.m)))

\* x % w for x >= 0 and w > 0 (CPython float_rem: fmod, no sign adjustment)
FRem(x, w) == FMod(x, w)

FHalf == FRound(0, <<1>>, -1)

\* floor(div), one more when div - floor(div) > 0.5
FFloorAdjust(div, fl) ==
    IF FLess(FHalf, FSub(div, fl)) THEN FAdd(fl, FromInt(1)) ELSE fl

FFloor(div) ==
    IF FIsZero(div) THEN FZero ELSE FFloorAdjust(div, FromInt(FTrunc(div)))

\* x // w for x >= 0 and w > 0 (CPython float_floor_div)
FFloorDiv(x, w) == FFloor(FDiv(FSub(x, FMod(x, w)), w))

RECURSIVE Pow10(_)
Pow10(n) == IF n = 0 THEN <<1>> ELSE BMulSmall(Pow10(n - 1), 10)

\* The float nearest to n / 10^d, for a natural n
FromScaledDecimal(n, d) == FRoundQuotient(0, BDivMod(BShl(n, 70), Pow10(d)), -70)

(***************************************************************************)
(* Python str: a sequence of one-character strings.                        *)
(***************************************************************************)
Digit == {"0", "1", "2", "3", "4", "5", "6", "7", "8", "9"}
DigitChars == <<"0", "1", "2", "3", "4", "5", "6", "7", "8", "9">>

\* c in s
Contains(s, c) == \E i \in 1..Len(s) : s[i] = c
\* s.replace(a, b) for single characters
Replace(s, a, b) == [i \in 1..Len(s) |-> IF s[i] = a THEN b ELSE s[i]]

\* s.split(c)
RECURSIVE Split(_, _)
Split(s, c) ==
    IF ~Contains(s, c) THEN <<s>>
    ELSE LET i == CHOOSE j \in 1..Len(s) : s[j] = c /\ \A k \in 1..(j - 1) : s[k] # c
         IN  <<SubSeq(s, 1, i - 1)>> \o Split(SubSeq(s, i + 1, Len(s)), c)

\* int(s) for a string of decimal digits
RECURSIVE PyInt(_)
PyInt(s) ==
    IF s = <<>> THEN 0
    ELSE 10 * PyInt(SubSeq(s, 1, Len(s) - 1))
             + (CHOOSE d \in 0..9 : DigitChars[d + 1] = s[Len(s)])

DecimalOf(parts) == FromScaledDecimal(BFromInt(PyInt(parts[1] \o parts[2])), Len(parts[2]))

\* float(s) for a string of digits, '.', digits: the nearest float
PyFloat(s) == DecimalOf(Split(s, "."))

\* str(n) for n >= 0
RECURSIVE PyStr(_)
PyStr(n) == IF n < 10 THEN <<DigitChars[n + 1]>> ELSE Append(PyStr(n \div 10), DigitChars[(n % 10) + 1])

RECURSIVE Zeros0(_)
Zeros0(n) == IF n = 0 THEN <<>> ELSE <<"0">> \o Zeros0(n - 1)

\* f"{n:0wd}" for n >= 0: zero-padded to at least w characters
PadZero(n, w) == Zeros0(Max(0, w - Len(PyStr(n)))) \o PyStr(n)

(***************************************************************************)
(* The timecode codec.  Both functions are applied here to strings of the  *)
(* shape -?DD:DD:DD,DDD only, on which int() and float() never raise.      *)
(***************************************************************************)
HoursMinutesSeconds(hms) ==
    FAdd(FromInt(PyInt(hms[1]) * 3600 + PyInt(hms[2]) * 60), PyFloat(hms[3]))

RECURSIVE parse_srt_time(_)
parse_srt_time(time_str) ==
    IF Contains(time_str, "-")
    THEN FNeg(parse_srt_time(SelectSeq(time_str, LAMBDA c : c # "-")))
    ELSE HoursMinutesSeconds(Split(Replace(time_str, ",", "."), ":"))

format_srt_time(seconds) ==
    LET sign         == IF FLt0(seconds) THEN <<"-">> ELSE <<>>
        abs_seconds  == FAbs(seconds)
        hours        == FTrunc(FFloorDiv(abs_seconds, FromInt(3600)))
        minutes      == FTrunc(FFloorDiv(FRem(abs_seconds, FromInt(3600)), FromInt(60)))
        secs         == FTrunc(FRem(abs_seconds, FromInt(60)))
        milliseconds == FTrunc(FMul(FSub(abs_seconds, FromInt(FTrunc(abs_seconds))),
                                    FromInt(1000)))
    IN  sign \o PadZero(hours, 2) \o <<":">> \o PadZero(minutes, 2) \o <<":">>
             \o PadZero(secs, 2) \o <<",">> \o PadZero(milliseconds, 3)

(***************************************************************************)
(* The block parser of the import: re.findall(pattern, content) with       *)
(*   pattern = (\d+)\n(TIME) --> (TIME)\n([\s\S]*?)(?=\n+\d+|\n*$)           *)
(*   TIME    = -?\d{2}:\d{2}:\d{2},\d{3}                                     *)
(* Positions are 1-based indices of the next character to read.            *)
(***************************************************************************)
NL == "\n"
Whitespace == {" ", NL}

\* The position after the run of characters of class cls that starts at i
RECURSIVE SkipWhile(_, _, _)
SkipWhile(s, i, cls) ==
    IF i <= Len(s) /\ s[i] \in cls THEN SkipWhile(s, i + 1, cls) ELSE i

\* Whether the literal lit is at position i
LiteralAt(s, i, lit) ==
    /\ i + Len(lit) - 1 <= Len(s)
    /\ \A j \in 1..Len(lit) : s[i + j - 1] = lit[j]

\* \d{2}:\d{2}:\d{2},\d{3}, "d" standing for a digit
TimeShape == <<"d", "d", ":", "d", "d", ":", "d", "d", ",", "d", "d", "d">>

\* The position after a TIME at position i, or 0 when there is none
TimeEnd(s, i) ==
    LET j == IF i <= Len(s) /\ s[i] = "-" THEN i + 1 ELSE i
    IN  IF /\ j + Len(TimeShape) - 1 <= Len(s)
           /\ \A n \in 1..Len(TimeShape) :
                 IF TimeShape[n] = "d" THEN s[j + n - 1] \in Digit
                 ELSE s[j + n - 1] = TimeShape[n]
        THEN j + Len(TimeShape)
        ELSE 0

\* The lookahead (?=\n+\d+|\n*$) at position q: newlines and then a digit, or
\* nothing but newlines up to the end of the content
Lookahead(s, q) ==
    LET j == SkipWhile(s, q, {NL})
    IN  \/ j > q /\ j <= Len(s) /\ s[j] \in Digit
        \/ j > Len(s)

\* The lazy group ([\s\S]*?) from position ts: it ends at the first position the
\* lookahead accepts
TextEnd(s, ts) ==
    CHOOSE q \in ts..(Len(s) + 1) :
        Lookahead(s, q) /\ \A r \in ts..(q - 1) : ~Lookahead(s, r)

\* The match of the pattern that starts at position p: [ok, groups, end]
MatchAt(s, p) ==
    LET e  == SkipWhile(s, p, Digit)          \* (\d+), greedy
        t1 == e + 1                           \* after \n
        a1 == TimeEnd(s, t1)
        t2 == a1 + 5                          \* after " --> "
        a2 == TimeEnd(s, t2)
        ts == a2 + 1                          \* after \n
        q  == TextEnd(s, ts)
        ok == /\ e > p
              /\ LiteralAt(s, e, <<NL>>)
              /\ a1 # 0
              /\ LiteralAt(s, a1, <<" ", "-", "-", ">", " ">>)
              /\ a2 # 0
              /\ LiteralAt(s, a2, <<NL>>)
    IN  IF ok
        THEN [ok |-> TRUE,
              groups |-> <<SubSeq(s, p, e - 1), SubSeq(s, t1, a1 - 1),
                           SubSeq(s, t2, a2 - 1), SubSeq(s, ts, q - 1)>>,
              end |-> q]
        ELSE [ok |-> FALSE, groups |-> <<>>, end |-> p]

\* re.findall(pattern, s) from position p on: the leftmost match, then the
\* matches after its end
RECURSIVE FindAllFrom(_, _)
FindAllFrom(s, p) ==
    LET starts == {r \in p..Len(s) : s[r] \in Digit /\ MatchAt(s, r).ok}
    IN  IF starts = {} THEN <<>>
        ELSE LET first == CHOOSE r \in starts : \A r2 \in starts : r <= r2
                 m     == MatchAt(s, first)
             IN  <<m.groups>> \o FindAllFrom(s, m.end)

FindAll(s) == FindAllFrom(s, 1)

\* s.strip()
Strip(s) ==
    LET keep == {i \in 1..Len(s) : s[i] \notin Whitespace}
    IN  IF keep = {} THEN <<>>
        ELSE SubSeq(s, CHOOSE i \in keep : \A j \in keep : i <= j,
                       CHOOSE i \in keep : \A j \in keep : i >= j)

(***************************************************************************)
(* State.                                                                  *)
(***************************************************************************)
VARIABLES
    time_str,         \* the codec's input: a timecode string
    seconds,          \* <<x>> once parse_srt_time has returned the float x, else <<>>
    time_out,         \* <<s>> once format_srt_time has returned the string s, else <<>>
    content,          \* the text of the SRT file at the import's filepath
    file_cues,        \* the cue blocks that content was written from (history)
    out_file,         \* the file at the export's filepath: [exists, data], data the
                      \* strings written to it, in order
    scene,            \* [fps, fps_base, frame_start, template_name, template_strip]
    sequence_editor,  \* whether scene.sequence_editor exists
    sequences,        \* sequence_editor.sequences_all: the strips, in host order
    active_strip,     \* the id of sequence_editor.active_strip, 0 for None
    import_op,        \* the import operator's properties
    export_op,        \* the export operator's properties
    pc,               \* where the running execute() is, "idle" when none runs
    loc,              \* the local variables of the running execute()
    returned,         \* what each execute() so far returned: [op, status]
    reports,          \* the self.report() calls of the current (or last) execute()
    calls,            \* the host and file calls of the current (or last) execute()
    pre,              \* the host, file and operator state at each invocation (history)
    runs              \* the number of execute() invocations so far

codecVars == <<time_str, seconds, time_out>>
fileVars  == <<content, file_cues>>
hostVars  == <<sequence_editor, sequences, active_strip>>
propVars  == <<scene, export_op>>
vars == <<time_str, seconds, time_out, content, file_cues, out_file, scene,
          sequence_editor, sequences, active_strip, import_op, export_op, pc, loc,
          returned, reports, calls, pre, runs>>

(***************************************************************************)
(* The host: the strips of the timeline and the operators on them that the *)
(* add-on calls (bpy.ops.sequencer.*, sequences.new_effect, attributes).   *)
(***************************************************************************)
MaxChannel == 3
Channels == 1..MaxChannel

NewStrip(id, type, name, channel, frame_start, frame_final_end, text, select) ==
    [id |-> id, type |-> type, name |-> name, channel |-> channel,
     frame_start |-> frame_start, frame_final_end |-> frame_final_end,
     text |-> text, select |-> select]

StripIds == {sequences[n].id : n \in 1..Len(sequences)}
StripById(id) == sequences[CHOOSE n \in 1..Len(sequences) : sequences[n].id = id]
NewId == 1 + Max(0, IF sequences = <<>> THEN 0
                    ELSE CHOOSE m \in StripIds : \A o \in StripIds : o <= m)

\* bpy.ops.sequencer.select_all(action='DESELECT')
DeselectAll(strips) == [n \in 1..Len(strips) |-> [strips[n] EXCEPT !.select = FALSE]]

\* Whether a strip over [frame_start, frame_end) on channel c would overlap a strip
Occupied(strips, c, frame_start, frame_end) ==
    \E n \in 1..Len(strips) :
        /\ strips[n].channel = c
        /\ strips[n].frame_start < frame_end
        /\ frame_start < strips[n].frame_final_end

\* The channels the host may put a strip added on channel c at: c or a channel
\* above it, free over the strip's range
ResolvedChannels(strips, c, frame_start, frame_end) ==
    {r \in Channels : r >= c /\ ~Occupied(strips, r, frame_start, frame_end)}

\* A call, as it is logged: its arguments, and in result the channel of the strip
\* that the host made (0 for the calls that make none)
Call(op, frame_start, frame_end, channel) ==
    [op |-> op, frame_start |-> frame_start, frame_end |-> frame_end,
     channel |-> channel, result |-> 0]

Report(level, text) == [level |-> level, text |-> text]

NoLocals ==
    [fps |-> FZero, matches |-> <<>>, template_strip |-> 0, template_name |-> <<>>,
     subtitle_channel_old |-> 0, first_frame |-> 0, duration |-> 0,
     start_frame |-> 0, selected_strips |-> <<>>, i |-> 0]

Snapshot ==
    [sequence_editor |-> sequence_editor, sequences |-> sequences,
     active_strip |-> active_strip, subtitle_channel |-> import_op.subtitle_channel,
     out_file |-> out_file]

(***************************************************************************)
(* SEQUENCER_OT_ImportSRT.execute                                          *)
(***************************************************************************)
MaxRuns == 2

\* get_scene_fps(scene)
get_scene_fps == FDiv(FromInt(scene.fps), scene.fps_base)

ImportFps == IF import_op.use_scene_fps THEN get_scene_fps ELSE import_op.custom_fps

\* int(self.start_frame + sec * fps)
ImportFrame(start_frame, sec, fps) == FTrunc(FAdd(FromInt(start_frame), FMul(sec, fps)))

\* A clamp of the negative durations only
ClampNegative(duration) == IF duration < 0 THEN 1 ELSE duration

\* if duration <= 0: duration = 1
ClampDuration(duration) == IF duration <= 0 THEN 1 ELSE duration

\* template_name.replace('{index}', str(index)), the name a sequence of pieces
StripName(template_name, index) ==
    [n \in 1..Len(template_name) |->
        IF template_name[n] = "{index}" THEN index ELSE template_name[n]]

Invoke(op) ==
    /\ pc = "idle"
    /\ runs < MaxRuns
    /\ runs' = runs + 1
    /\ pre' = Append(pre, Snapshot)
    /\ UNCHANGED <<codecVars, fileVars, propVars>>

Return(op, status, report) ==
    /\ pc' = "idle"
    /\ loc' = NoLocals
    /\ returned' = Append(returned, [op |-> op, status |-> status])
    /\ reports' = <<report>>

\* open(self.filepath) or file.read() raises: the except clause
ImportOpenFails ==
    /\ Invoke("import")
    /\ Return("import", "CANCELLED", Report("ERROR", "Error importing SRT"))
    /\ calls' = <<>>
    /\ UNCHANGED <<hostVars, out_file, import_op>>

\* An import that makes the sequence editor before it looks at the matches
ImportNoSubtitlesLate ==
    /\ Invoke("import")
    /\ FindAll(content) = <<>>
    /\ Return("import", "CANCELLED", Report("ERROR", "No subtitles found in the SRT file"))
    /\ sequence_editor' = TRUE
    /\ calls' = IF sequence_editor THEN <<>>
                ELSE <<Call("sequence_editor_create", 0, 0, 0)>>
    /\ UNCHANGED <<sequences, active_strip, out_file, import_op>>

\* re.findall finds no block
ImportNoSubtitles ==
    /\ Invoke("import")
    /\ FindAll(content) = <<>>
    /\ Return("import", "CANCELLED", Report("ERROR", "No subtitles found in the SRT file"))
    /\ calls' = <<>>
    /\ UNCHANGED <<hostVars, out_file, import_op>>

\* The strip named by srt_props.template_strip, 0 when there is none
TemplateStrip ==
    LET named == {n \in 1..Len(sequences) :
                     scene.template_strip # <<>>
                     /\ sequences[n].name = scene.template_strip}
    IN  IF named = {} THEN 0
        ELSE sequences[CHOOSE n \in named : \A o \in named : n <= o].id

\* The locals once the range of the subtitles is known
Prepared(matches, fps, first_frame, last_frame) ==
    [NoLocals EXCEPT
        !.fps = fps,
        !.matches = matches,
        !.template_strip = TemplateStrip,
        !.template_name = scene.template_name,
        !.subtitle_channel_old = import_op.subtitle_channel,
        !.first_frame = first_frame,
        !.duration = ClampDuration(last_frame - first_frame),
        !.i = 1]

Prepare(matches, fps) ==
    /\ matches # <<>>
    /\ sequence_editor' = TRUE
    /\ sequences' = DeselectAll(sequences)
    /\ calls' = (IF sequence_editor THEN <<>>
                 ELSE <<Call("sequence_editor_create", 0, 0, 0)>>)
                \o <<Call("select_all", 0, 0, 0)>>
    /\ loc' = Prepared(matches, fps,
                       ImportFrame(import_op.start_frame,
                                   parse_srt_time(matches[1][2]), fps),
                       ImportFrame(import_op.start_frame,
                                   parse_srt_time(matches[Len(matches)][3]), fps))

\* From the entry of execute() to the call of effect_strip_add
ImportPrepare ==
    /\ Invoke("import")
    /\ Prepare(FindAll(content), ImportFps)
    /\ pc' = "probe_add"
    /\ reports' = <<>>
    /\ UNCHANGED <<active_strip, out_file, import_op, returned>>

\* bpy.ops.sequencer.effect_strip_add(...), the host choosing the channel, and
\* self.subtitle_channel = temp_strip.channel
ImportProbeAdd ==
    /\ pc = "probe_add"
    /\ \E c \in ResolvedChannels(sequences, import_op.subtitle_channel,
                                 loc.first_frame, loc.first_frame + loc.duration) :
          /\ sequences' = Append(sequences,
                 NewStrip(NewId, "TEXT", <<"Text">>, c, loc.first_frame,
                       loc.first_frame + loc.duration, <<>>, TRUE))
          /\ import_op' = [import_op EXCEPT !.subtitle_channel = c]
          /\ calls' = Append(calls,
                 [Call("effect_strip_add", loc.first_frame,
                       loc.first_frame + loc.duration, import_op.subtitle_channel)
                  EXCEPT !.result = c])
    /\ active_strip' = NewId
    /\ pc' = "probe_delete"
    /\ UNCHANGED <<codecVars, fileVars, propVars, out_file, sequence_editor, loc,
                   returned, reports, pre, runs>>

\* A delete() that leaves the strips where they are
ImportProbeKept ==
    /\ pc = "probe_delete"
    /\ active_strip' = 0
    /\ calls' = Append(calls, Call("delete", 0, 0, 0))
    /\ pc' = "cues"
    /\ UNCHANGED <<codecVars, fileVars, propVars, out_file, sequence_editor, sequences,
                   import_op, loc, returned, reports, pre, runs>>

\* bpy.ops.sequencer.delete(): the selected strips go
ImportProbeDelete ==
    /\ pc = "probe_delete"
    /\ sequences' = SelectSeq(sequences, LAMBDA st : ~st.select)
    /\ active_strip' = 0
    /\ calls' = Append(calls, Call("delete", 0, 0, 0))
    /\ pc' = "cues"
    /\ UNCHANGED <<codecVars, fileVars, propVars, out_file, sequence_editor, import_op,
                   loc, returned, reports, pre, runs>>

\* Whether the loop takes the template path
UseTemplate ==
    /\ loc.template_strip \in StripIds
    /\ StripById(loc.template_strip).type = "TEXT"

\* The strip of a cue: a duplicate of the template set up for the cue, or a new
\* text strip
PlaceStrip(strip_name, text, start_frame, duration) ==
    IF UseTemplate
    THEN \* select the template, duplicate it, set up the duplicate
         /\ sequences' = Append(DeselectAll(sequences),
                [StripById(loc.template_strip) EXCEPT
                    !.id = NewId, !.select = TRUE, !.name = strip_name,
                    !.text = text, !.frame_start = start_frame,
                    !.frame_final_end = start_frame + duration,
                    !.channel = import_op.subtitle_channel])
         /\ active_strip' = NewId
         /\ calls' = calls \o
                <<Call("select_all", 0, 0, 0), Call("duplicate", 0, 0, 0),
                  Call("assign", start_frame, start_frame + duration,
                       import_op.subtitle_channel)>>
    ELSE \* seq_editor.sequences.new_effect(...) and the default settings
         /\ sequences' = Append(sequences,
                NewStrip(NewId, "TEXT", strip_name, import_op.subtitle_channel,
                         start_frame, start_frame + duration, text, TRUE))
         /\ active_strip' = active_strip
         /\ calls' = Append(calls,
                Call("new_effect", start_frame, start_frame + duration,
                     import_op.subtitle_channel))

PlaceCue(m, start_frame, end_frame) ==
    PlaceStrip(StripName(loc.template_name, m[1]), Strip(m[4]), start_frame,
               ClampDuration(end_frame - start_frame))

\* One iteration of the loop over matches
ImportCue ==
    /\ pc = "cues"
    /\ loc.i <= Len(loc.matches)
    /\ PlaceCue(loc.matches[loc.i],
                ImportFrame(import_op.start_frame,
                            parse_srt_time(loc.matches[loc.i][2]), loc.fps),
                ImportFrame(import_op.start_frame,
                            parse_srt_time(loc.matches[loc.i][3]), loc.fps))
    /\ loc' = [loc EXCEPT !.i = loc.i + 1]
    /\ UNCHANGED <<codecVars, fileVars, propVars, out_file, sequence_editor, import_op,
                   pc, returned, reports, pre, runs>>

\* After the loop: the channel is restored and success reported
ImportFinish ==
    /\ pc = "cues"
    /\ loc.i > Len(loc.matches)
    /\ import_op' = [import_op EXCEPT !.subtitle_channel = loc.subtitle_channel_old]
    /\ Return("import", "FINISHED", Report("INFO", "Success"))
    /\ UNCHANGED <<codecVars, fileVars, propVars, out_file, hostVars, calls, pre, runs>>

\* An except clause that makes one more strip before it reports
ImportRaiseThenCreate ==
    /\ pc \in {"probe_add", "probe_delete", "cues"}
    /\ pc = "cues" => loc.i <= Len(loc.matches)
    /\ Return("import", "CANCELLED", Report("ERROR", "Error importing SRT"))
    /\ calls' = Append(calls, Call("new_effect", 0, 1, import_op.subtitle_channel))
    /\ UNCHANGED <<codecVars, fileVars, propVars, out_file, hostVars, import_op, pre, runs>>

\* The next host call raises: the except clause
ImportRaise ==
    /\ pc \in {"probe_add", "probe_delete", "cues"}
    /\ pc = "cues" => loc.i <= Len(loc.matches)
    /\ Return("import", "CANCELLED", Report("ERROR", "Error importing SRT"))
    /\ UNCHANGED <<codecVars, fileVars, propVars, out_file, hostVars, import_op, calls,
                   pre, runs>>


(***************************************************************************)
(* SEQUENCER_OT_ExportSRT.execute                                          *)
(***************************************************************************)
ExportFps == IF export_op.use_scene_fps THEN get_scene_fps ELSE export_op.custom_fps

ExportStartFrame ==
    IF export_op.use_scene_start_frame THEN scene.frame_start
    ELSE export_op.custom_start_frame

\* [s for s in context.selected_sequences if s.type == 'TEXT']
SelectedText(strips) == SelectSeq(strips, LAMBDA st : st.select /\ st.type = "TEXT")

\* set(s.channel for s in selected_strips)
ChannelsOf(strips) == {strips[n].channel : n \in 1..Len(strips)}

\* An insertion before the strips of the same frame_start
SortedInsertBefore(sorted, st) ==
    LET before == {n \in 1..Len(sorted) : sorted[n].frame_start < st.frame_start}
    IN  SubSeq(sorted, 1, Cardinality(before)) \o <<st>>
            \o SubSeq(sorted, Cardinality(before) + 1, Len(sorted))

\* list.sort(key=lambda s: s.frame_start): stable, ascending
RECURSIVE SortedInsert(_, _)
SortedInsert(sorted, st) ==
    IF sorted = <<>> THEN <<st>>
    ELSE IF sorted[Len(sorted)].frame_start <= st.frame_start THEN Append(sorted, st)
    ELSE Append(SortedInsert(SubSeq(sorted, 1, Len(sorted) - 1), st), sorted[Len(sorted)])

RECURSIVE SortByFrameStart(_)

SortByFrameStart(strips) ==
    IF strips = <<>> THEN <<>>
    ELSE SortedInsert(SortByFrameStart(SubSeq(strips, 1, Len(strips) - 1)),
                      strips[Len(strips)])

Arrow == <<" ", "-", "-", ">", " ">>

\* The seconds of a frame counted from frame 0
ExportSecondsFromZero(frame, start_frame, fps) == FDiv(FromInt(frame), fps)

\* (frame - start_frame) / fps
ExportSeconds(frame, start_frame, fps) == FDiv(FromInt(frame - start_frame), fps)

\* The three strings written for the i-th strip
Entry(i, strip, start_frame, fps) ==
    <<PyStr(i) \o <<NL>>,
      format_srt_time(ExportSeconds(strip.frame_start, start_frame, fps)) \o Arrow
        \o format_srt_time(ExportSeconds(strip.frame_final_end, start_frame, fps))
        \o <<NL>>,
      strip.text \o <<NL, NL>>>>

ExportNoEditor ==
    /\ Invoke("export")
    /\ ~sequence_editor
    /\ Return("export", "CANCELLED", Report("ERROR", "No sequence editor found"))
    /\ calls' = <<>>
    /\ UNCHANGED <<hostVars, out_file, import_op>>

ExportNoSelection ==
    /\ Invoke("export")
    /\ sequence_editor
    /\ SelectedText(sequences) = <<>>
    /\ Return("export", "CANCELLED", Report("ERROR", "No text strips selected"))
    /\ calls' = <<>>
    /\ UNCHANGED <<hostVars, out_file, import_op>>

ExportMixedChannels ==
    /\ Invoke("export")
    /\ sequence_editor
    /\ Cardinality(ChannelsOf(SelectedText(sequences))) > 1
    /\ Return("export", "CANCELLED",
              Report("ERROR", "Selected text strips must be in the same channel"))
    /\ calls' = <<>>
    /\ UNCHANGED <<hostVars, out_file, import_op>>

\* A validation without the channel check
ExportValidAnyChannel ==
    /\ sequence_editor
    /\ SelectedText(sequences) # <<>>

ExportValid ==
    /\ sequence_editor
    /\ SelectedText(sequences) # <<>>
    /\ Cardinality(ChannelsOf(SelectedText(sequences))) <= 1

\* open(self.filepath, 'w') raises: the except clause
ExportOpenFails ==
    /\ Invoke("export")
    /\ ExportValid
    /\ Return("export", "CANCELLED", Report("ERROR", "Error exporting SRT"))
    /\ calls' = <<Call("open", 0, 0, 0)>>
    /\ UNCHANGED <<hostVars, out_file, import_op>>

\* The selection is valid: it is sorted and the file is opened for writing
ExportOpen ==
    /\ Invoke("export")
    /\ ExportValid
    /\ loc' = [NoLocals EXCEPT
                 !.fps = ExportFps,
                 !.start_frame = ExportStartFrame,
                 !.selected_strips = SortByFrameStart(SelectedText(sequences)),
                 !.i = 1]
    /\ out_file' = [exists |-> TRUE, data |-> <<>>]
    /\ calls' = <<Call("open", 0, 0, 0)>>
    /\ pc' = "write"
    /\ reports' = <<>>
    /\ UNCHANGED <<hostVars, import_op, returned>>

\* One iteration of the loop over selected_strips: three writes
ExportWrite ==
    /\ pc = "write"
    /\ loc.i <= Len(loc.selected_strips)
    /\ out_file' = [out_file EXCEPT !.data =
           @ \o Entry(loc.i, loc.selected_strips[loc.i], loc.start_frame, loc.fps)]
    /\ loc' = [loc EXCEPT !.i = loc.i + 1]
    /\ calls' = calls \o <<Call("write", 0, 0, 0), Call("write", 0, 0, 0),
                           Call("write", 0, 0, 0)>>
    /\ UNCHANGED <<codecVars, fileVars, propVars, hostVars, import_op, pc, returned,
                   reports, pre, runs>>

\* A write of the iteration raises after j of its writes: the with statement closes
\* the file, the except clause reports
ExportWriteFails ==
    /\ pc = "write"
    /\ loc.i <= Len(loc.selected_strips)
    /\ \E j \in 0..2 :
          /\ out_file' = [out_file EXCEPT !.data =
                 @ \o SubSeq(Entry(loc.i, loc.selected_strips[loc.i], loc.start_frame,
                                   loc.fps), 1, j)]
          /\ calls' = calls \o [n \in 1..(j + 1) |-> Call("write", 0, 0, 0)]
    /\ Return("export", "CANCELLED", Report("ERROR", "Error exporting SRT"))
    /\ UNCHANGED <<codecVars, fileVars, propVars, hostVars, import_op, pre, runs>>

\* After the loop: the file is closed and success reported
ExportFinish ==
    /\ pc = "write"
    /\ loc.i > Len(loc.selected_strips)
    /\ Return("export", "FINISHED", Report("INFO", "Success"))
    /\ UNCHANGED <<codecVars, fileVars, propVars, hostVars, out_file, import_op, calls,
                   pre, runs>>

(***************************************************************************)
(* The user, between two operators: a selection in the sequencer.          *)
(***************************************************************************)
UserSelect ==
    /\ pc = "idle"
    /\ runs < MaxRuns
    /\ \E S \in SUBSET StripIds :
          /\ sequences' = [n \in 1..Len(sequences) |->
                              [sequences[n] EXCEPT !.select = (sequences[n].id \in S)]]
          /\ sequences' # sequences
    /\ UNCHANGED <<codecVars, fileVars, propVars, out_file, sequence_editor, active_strip,
                   import_op, pc, loc, returned, reports, calls, pre, runs>>

Next ==
    \/ ImportOpenFails
    \/ ImportNoSubtitles
    \/ ImportPrepare
    \/ ImportProbeAdd
    \/ ImportProbeDelete
    \/ ImportCue
    \/ ImportFinish
    \/ ImportRaise
    \/ ExportNoEditor
    \/ ExportNoSelection
    \/ ExportMixedChannels
    \/ ExportOpenFails
    \/ ExportOpen
    \/ ExportWrite
    \/ ExportWriteFails
    \/ ExportFinish
    \/ UserSelect

(***************************************************************************)
(* SRT files, as a subtitle tool writes them.                              *)
(***************************************************************************)
\* HH:MM:SS,mmm with an optional leading minus sign
Timecode(neg, h, m, sec, ms) ==
    (IF neg THEN <<"-">> ELSE <<>>) \o PadZero(h, 2) \o <<":">> \o PadZero(m, 2)
        \o <<":">> \o PadZero(sec, 2) \o <<",">> \o PadZero(ms, 3)

TimecodeOfMillis(ms) ==
    Timecode(ms < 0, Abs(ms) \div 3600000, (Abs(ms) \div 60000) % 60,
             (Abs(ms) \div 1000) % 60, Abs(ms) % 1000)

\* A cue block: its index line, its two times (in milliseconds) and its text
Cue(index, start_ms, end_ms, text) ==
    [index |-> PyStr(index), start_ms |-> start_ms, end_ms |-> end_ms,
     start |-> TimecodeOfMillis(start_ms), end |-> TimecodeOfMillis(end_ms),
     text |-> text]

Block(c) == c.index \o <<NL>> \o c.start \o Arrow \o c.end \o <<NL>> \o c.text

\* The blocks, a blank line between two of them, a newline at the end
RECURSIVE SrtText(_)
SrtText(cues) ==
    IF cues = <<>> THEN <<>>
    ELSE IF Len(cues) = 1 THEN Block(cues[1]) \o <<NL>>
    ELSE Block(cues[1]) \o <<NL, NL>> \o SrtText(Tail(cues))

(***************************************************************************)
(* Initial states.                                                         *)
(***************************************************************************)
\* 1.001 as Blender stores it, in single precision
FpsBaseNtsc == FRound(0, BFromInt(8396997), -23)

Scene(fps, fps_base, frame_start, template_strip) ==
    [fps |-> fps, fps_base |-> fps_base, frame_start |-> frame_start,
     template_name |-> <<"Subtitle ", "{index}">>, template_strip |-> template_strip]

ImportOp(start_frame, subtitle_channel, use_scene_fps, custom_fps) ==
    [start_frame |-> start_frame, subtitle_channel |-> subtitle_channel,
     use_scene_fps |-> use_scene_fps, custom_fps |-> custom_fps]

ExportOp(use_scene_fps, custom_fps, use_scene_start_frame, custom_start_frame) ==
    [use_scene_fps |-> use_scene_fps, custom_fps |-> custom_fps,
     use_scene_start_frame |-> use_scene_start_frame,
     custom_start_frame |-> custom_start_frame]

\* The timelines an import or export may find
NoEditor == [sequence_editor |-> FALSE, sequences |-> <<>>]
EmptyTimeline == [sequence_editor |-> TRUE, sequences |-> <<>>]
EditedTimeline ==
    [sequence_editor |-> TRUE,
     sequences |-> <<NewStrip(1, "TEXT", <<"Tmpl">>, 1, 1, 49, <<"t">>, FALSE),
                     NewStrip(2, "COLOR", <<"Color">>, 2, 1, 49, <<>>, FALSE)>>]

InitOperators(Files, Scenes, Timelines, ImportOps, ExportOps) ==
    /\ file_cues \in Files
    /\ content = SrtText(file_cues)
    /\ out_file = [exists |-> TRUE, data |-> <<<<"o", "l", "d">>>>]
    /\ scene \in Scenes
    /\ \E t \in Timelines :
          /\ sequence_editor = t.sequence_editor
          /\ sequences = t.sequences
    /\ active_strip = 0
    /\ import_op \in ImportOps
    /\ export_op \in ExportOps
    /\ pc = "idle"
    /\ loc = NoLocals
    /\ returned = <<>>
    /\ reports = <<>>
    /\ calls = <<>>
    /\ pre = <<>>
    /\ runs = 0

InitFrom(Files, Scenes, Timelines, ImportOps, ExportOps) ==
    /\ time_str = <<>> /\ seconds = <<>> /\ time_out = <<>>
    /\ InitOperators(Files, Scenes, Timelines, ImportOps, ExportOps)

DefaultImportOp == ImportOp(1, 1, TRUE, FromInt(24))
DefaultExportOp == ExportOp(TRUE, FromInt(24), TRUE, 1)
DefaultScene == Scene(24, FromInt(1), 1, <<>>)

TwoCues == <<Cue(1, 1000, 2000, <<"a">>), Cue(2, 3000, 4000, <<"b">>)>>

\* A file whose only block has a period in its start time
MalformedFile ==
    <<[Cue(1, 1000, 2000, <<"a">>) EXCEPT !.start = Replace(@, ",", ".")]>>

\* Files whose blocks are in time order, out of it, start together, or are missing,
\* and files whose texts have two lines
ProtocolFiles ==
    {<<>>,
     MalformedFile,
     <<Cue(1, 1000, 2000, <<"a">>)>>,
     TwoCues,
     <<Cue(1, 3000, 4000, <<"a">>), Cue(2, 1000, 2000, <<"b">>)>>,
     <<Cue(1, 1000, 2000, <<"a">>), Cue(2, 1000, 3000, <<"b">>)>>,
     <<Cue(1, 1000, 2000, <<"a", " ", NL, "b">>)>>,
     <<Cue(1, 1000, 2000, <<"a", NL, "2", "b">>), Cue(2, 3000, 4000, <<"c">>)>>}

\* A scene without a sequence editor, and three files
InitNoEditor ==
    InitFrom({<<>>, MalformedFile, TwoCues}, {DefaultScene}, {NoEditor}, {DefaultImportOp},
             {DefaultExportOp})

\* A scene without a sequence editor; an empty timeline, with every file and either
\* of two requested channels; a timeline with strips on it, with every setting of
\* the template strip
Init ==
    \/ InitNoEditor
    \/ InitFrom(ProtocolFiles, {DefaultScene}, {EmptyTimeline},
                {ImportOp(1, c, TRUE, FromInt(24)) : c \in {1, 2}}, {DefaultExportOp})
    \/ InitFrom({TwoCues},
                {Scene(24, FromInt(1), 1, ts) : ts \in {<<"Tmpl">>, <<"Color">>, <<"Gone">>}},
                {EditedTimeline}, {DefaultImportOp}, {DefaultExportOp})

Spec == Init /\ [][Next]_vars

(***************************************************************************)
(* Cue times on and off the frame grid, at several frame rates and start   *)
(* frames, on the plain path and on the template path.                     *)
(***************************************************************************)
CueLengths == {-500, 0, 10, 2000}

TimedCues ==
    {<<Cue(1, s, s + d, <<"a">>)>> :
        s \in {-1500, -20, 0, 1160, 4100, 3600040}, d \in CueLengths}

\* Files of two blocks: out of time order with a space after a text, and with a
\* text line that begins with a digit
PairedCues ==
    {<<Cue(1, 3000, 4000, <<"b", " ">>), Cue(2, 1160, 2000, <<"a">>)>>,
     <<Cue(1, 1000, 2000, <<"a", NL, "2", "b">>), Cue(2, 3000, 4100, <<"c">>)>>}

Timing(scene_fps, fps_base, start_frame, use_scene, custom_fps) ==
    [scene     |-> Scene(scene_fps, fps_base, start_frame, <<"Tmpl">>),
     import_op |-> ImportOp(start_frame, MaxChannel, use_scene, custom_fps),
     export_op |-> ExportOp(use_scene, custom_fps, use_scene, start_frame)]

\* 24 fps from frame 1 (the defaults), a custom 25 fps from frame 100, NTSC 29.97
\* fps from frame 0, and 24 fps from a negative frame
Timings ==
    {Timing(24, FromInt(1), 1, TRUE, FromInt(24)),
     Timing(24, FromInt(1), 100, FALSE, FromInt(25)),
     Timing(30, FpsBaseNtsc, 0, TRUE, FromInt(24)),
     Timing(24, FromInt(1), -3, TRUE, FromInt(24))}

InitTimes ==
    \/ \E t \in Timings :
          InitFrom(TimedCues \cup PairedCues, {t.scene}, {EmptyTimeline}, {t.import_op},
                   {t.export_op})
    \/ \E t \in {Timing(24, FromInt(1), 1, TRUE, FromInt(24))} :
          InitFrom({<<Cue(1, 1160, 1160 + d, <<"a">>)>> : d \in CueLengths}, {t.scene},
                   {EditedTimeline}, {t.import_op}, {t.export_op})

SpecTimes == (InitNoEditor \/ InitTimes) /\ [][Next]_vars

(***************************************************************************)
(* The timecode codec on its own: a timecode is parsed, and the seconds    *)
(* parsed are formatted.                                                   *)
(***************************************************************************)
MaxMillis == 999

CodecInputs ==
    {Timecode(neg, h, m, sec, ms) :
        neg \in BOOLEAN, h \in {0, 99}, m \in {0, 59}, sec \in {0, 59},
        ms \in 0..MaxMillis}

CodecInit ==
    /\ time_str \in CodecInputs
    /\ seconds = <<>>
    /\ time_out = <<>>
    /\ InitOperators({<<>>}, {DefaultScene}, {NoEditor}, {DefaultImportOp},
                     {DefaultExportOp})

operatorVars ==
    <<content, file_cues, out_file, scene, sequence_editor, sequences, active_strip,
      import_op, export_op, pc, loc, returned, reports, calls, pre, runs>>

CodecParse ==
    /\ seconds = <<>>
    /\ seconds' = <<parse_srt_time(time_str)>>
    /\ UNCHANGED <<time_str, time_out, operatorVars>>

CodecFormat ==
    /\ seconds # <<>>
    /\ time_out = <<>>
    /\ time_out' = <<format_srt_time(seconds[1])>>
    /\ UNCHANGED <<time_str, seconds, operatorVars>>

CodecNext == CodecParse \/ CodecFormat

SpecCodec == CodecInit /\ [][CodecNext]_vars

(***************************************************************************)
(* Properties.                                                             *)
(***************************************************************************)
Last(seq) == seq[Len(seq)]

\* No execute() is running and the last one to return was op's
Returned(op) == pc = "idle" /\ returned # <<>> /\ Last(returned).op = op

Cancelled == Last(returned).status = "CANCELLED" /\ Len(reports) = 1 /\ reports[1].level = "ERROR"

CallsOf(ops) == {n \in 1..Len(calls) : calls[n].op \in ops}

PositionOf(strips, id) == CHOOSE n \in 1..Len(strips) : strips[n].id = id

\* C1: the timecode that format_srt_time returns for the seconds that
\* parse_srt_time returned for a timecode is that timecode, character for
\* character.
C1_RoundTrip == time_out # <<>> => time_out[1] = time_str

\* The calls that place a cue's strip, in the order they were made
Placements == SelectSeq(calls, LAMBDA c : c.op \in {"new_effect", "assign"})

\* start_frame + truncate(seconds * frame_rate)
ProductFrame(start_frame, sec, fps) == start_frame + FTrunc(FMul(sec, fps))

\* C2: the frame the import places a cue at is start_frame plus the product of
\* the cue's start time and the frame rate truncated toward zero, the truncation
\* applied to the product alone; so is the first frame of the batch.
C2_FrameMapping ==
    pc = "cues" =>
        /\ loc.first_frame = ProductFrame(import_op.start_frame,
                                          parse_srt_time(loc.matches[1][2]), loc.fps)
        /\ \A k \in 1..Len(Placements) :
              Placements[k].frame_start =
                  ProductFrame(import_op.start_frame,
                               parse_srt_time(loc.matches[k][2]), loc.fps)

\* The milliseconds of a timecode -?H..:MM:SS,mmm
UnsignedMillis(hms) ==
    ((PyInt(hms[1]) * 60 + PyInt(hms[2])) * 60 + PyInt(SubSeq(hms[3], 1, 2))) * 1000
        + PyInt(SubSeq(hms[3], 4, 6))

TimecodeMillis(tc) ==
    IF tc[1] = "-" THEN 0 - UnsignedMillis(Split(Tail(tc), ":"))
    ELSE UnsignedMillis(Split(tc, ":"))

\* The two timecodes of a line "start --> end\n"
ArrowAt(line) == CHOOSE p \in 1..Len(line) : SubSeq(line, p, p + 4) = Arrow
WrittenStart(line) == SubSeq(line, 1, ArrowAt(line) - 1)
WrittenEnd(line) == SubSeq(line, ArrowAt(line) + 5, Len(line) - 1)

\* An export that follows at once a finished import onto an empty timeline, of
\* all the strips that the import made, at the import's frame rate and start frame
RoundTripCase ==
    /\ pc = "write"
    /\ returned = <<[op |-> "import", status |-> "FINISHED"]>>
    /\ pre[1].sequences = <<>>
    /\ {loc.selected_strips[k].id : k \in 1..Len(loc.selected_strips)} = StripIds
    /\ loc.fps = ImportFps
    /\ loc.start_frame = import_op.start_frame

\* The block of the file that the k-th written strip was made from
CueOf(k) == PositionOf(sequences, loc.selected_strips[k].id)

\* Whether two timecodes are apart by one frame and one millisecond at most
WithinFrame(written, original, fps) ==
    Abs(TimecodeMillis(written) - TimecodeMillis(original))
        <= FTrunc(FDiv(FromInt(1000), fps)) + 1

\* Whether the import clamped the duration of the cue m
Clamped(m, start_frame, fps) ==
    ImportFrame(start_frame, parse_srt_time(m[3]), fps)
        <= ImportFrame(start_frame, parse_srt_time(m[2]), fps)

BlockWithinFrame(k, m, index_line, times_line, text_line) ==
    /\ index_line = PyStr(k) \o <<NL>>
    /\ text_line = Strip(m[4]) \o <<NL, NL>>
    /\ WithinFrame(WrittenStart(times_line), m[2], loc.fps)
    /\ Clamped(m, loc.start_frame, loc.fps)
          \/ WithinFrame(WrittenEnd(times_line), m[3], loc.fps)

RoundTripWithinFrame(matches) ==
    /\ Len(loc.selected_strips) = Len(matches)
    /\ Len(out_file.data) = 3 * (loc.i - 1)
    /\ \A j, k \in 1..Len(matches) :
          j < k => loc.selected_strips[j].frame_start <= loc.selected_strips[k].frame_start
    /\ \A k \in 1..(loc.i - 1) :
          BlockWithinFrame(k, matches[CueOf(k)], out_file.data[3 * k - 2],
                           out_file.data[3 * k - 1], out_file.data[3 * k])

\* C3 (amended): an export that follows at once an import of N blocks onto an
\* empty timeline, of all the strips made and at the same frame rate and start
\* frame, writes N blocks numbered 1..N in ascending order of start frame; a
\* block has the text that the parser read for its cue without the whitespace
\* around it, a start timecode within one frame and one millisecond of the
\* cue's, and an end timecode within one frame and one millisecond of the
\* cue's unless the cue's end frame was not after its start frame.
C3_RoundTripWithinFrame == RoundTripCase => RoundTripWithinFrame(FindAll(content))

C3_Witness ==
    /\ RoundTripCase
    /\ loc.i = 3
    /\ Len(loc.selected_strips) = 2
    /\ CueOf(1) = 2
    /\ TimecodeMillis(WrittenStart(out_file.data[2])) # file_cues[2].start_ms

BlockExact(cue, times_line, text_line) ==
    /\ text_line = cue.text \o <<NL, NL>>
    /\ TimecodeMillis(WrittenStart(times_line)) = cue.start_ms
    /\ TimecodeMillis(WrittenEnd(times_line)) = cue.end_ms

\* C3: an export that follows at once an import onto an empty timeline, of all
\* the strips made and at the same frame rate and start frame, writes for every
\* cue its text and its start and end timecodes, to the millisecond.
C3_RoundTripExact ==
    RoundTripCase =>
        \A k \in 1..(loc.i - 1) :
            BlockExact(file_cues[CueOf(k)], out_file.data[3 * k - 1],
                       out_file.data[3 * k])

InvalidSelection(strips) ==
    \/ SelectedText(strips) = <<>>
    \/ Cardinality(ChannelsOf(SelectedText(strips))) > 1

\* C4: an export of a selection that has no text strip, or text strips on more
\* than one channel, is cancelled with an error report and has neither opened
\* nor written the file; the strips of a file that is being written are all on
\* one channel.
C4_ExportValidation ==
    /\ (Returned("export") /\ InvalidSelection(Last(pre).sequences)) =>
          /\ Cancelled
          /\ calls = <<>>
          /\ out_file = Last(pre).out_file
    /\ pc = "write" => Cardinality(ChannelsOf(loc.selected_strips)) = 1

C4_Witness ==
    /\ Returned("export")
    /\ Cardinality(ChannelsOf(SelectedText(Last(pre).sequences))) > 1
    /\ Cancelled

\* C5: while export writes, the strips it writes are the selected text strips in
\* ascending frame_start order, strips of one frame_start in the order of the
\* host; the k-th block written has the index k and the text of the k-th of them.
C5_ExportOrder ==
    pc = "write" =>
        LET H == SelectedText(sequences)
            S == loc.selected_strips
        IN  /\ Len(S) = Len(H)
            /\ {S[k].id : k \in 1..Len(S)} = {H[k].id : k \in 1..Len(H)}
            /\ \A j, k \in 1..Len(S) :
                  j < k =>
                     /\ S[j].frame_start <= S[k].frame_start
                     /\ S[j].frame_start = S[k].frame_start
                           => PositionOf(H, S[j].id) < PositionOf(H, S[k].id)
            /\ Len(out_file.data) = 3 * (loc.i - 1)
            /\ \A k \in 1..(loc.i - 1) :
                  /\ out_file.data[3 * k - 2] = PyStr(k) \o <<NL>>
                  /\ out_file.data[3 * k] = S[k].text \o <<NL, NL>>

C5_Witness ==
    /\ pc = "write"
    /\ loc.i = 3
    /\ Len(out_file.data) = 6
    /\ loc.selected_strips # SelectedText(sequences)

MinimumDuration(call, m, start_frame, fps) ==
    /\ call.frame_end - call.frame_start >= 1
    /\ Clamped(m, start_frame, fps) => call.frame_end - call.frame_start = 1

\* C6: every placement that the import has issued for a cue, by new_effect or on
\* a duplicate of the template, ends one frame at least after it starts, and
\* exactly one frame after when the cue's end frame is not after its start
\* frame; so does the placeholder strip.
C6_MinimumDuration ==
    pc = "cues" =>
        /\ loc.duration >= 1
        /\ \A k \in 1..Len(Placements) :
              MinimumDuration(Placements[k], loc.matches[k], import_op.start_frame,
                              loc.fps)

C6_Witness ==
    /\ pc = "cues"
    /\ \E k \in 1..Len(Placements) :
          /\ Placements[k].op = "assign"
          /\ file_cues[k].end_ms < file_cues[k].start_ms
          /\ Placements[k].frame_end = Placements[k].frame_start + 1

\* C7: an import whose file has no block returns CANCELLED with an error report,
\* having called nothing of the host: the sequence editor, the strips, their
\* selection and the active strip are as they were when it was invoked.
C7_ParseFailure ==
    [][(returned' # returned /\ Last(returned').op = "import" /\ FindAll(content) = <<>>)
          => /\ Last(returned').status = "CANCELLED"
             /\ Len(reports') = 1 /\ reports'[1].level = "ERROR"
             /\ calls' = <<>>
             /\ sequence_editor' = Last(pre').sequence_editor
             /\ sequences' = Last(pre').sequences
             /\ active_strip' = Last(pre').active_strip]_vars

C7_Witness ==
    /\ Returned("import")
    /\ Cancelled
    /\ content # <<>>
    /\ FindAll(content) = <<>>
    /\ ~sequence_editor

\* C8: after an export that returned CANCELLED the output file is as it was
\* when export was invoked, or is not there.
C8_AllOrNothing ==
    (Returned("export") /\ Last(returned).status = "CANCELLED")
        => (out_file = Last(pre).out_file \/ ~out_file.exists)

WellFormed(cues) ==
    /\ cues # <<>>
    /\ \A k \in 1..Len(cues) : cues[k].start = TimecodeOfMillis(cues[k].start_ms)

\* C9: the parser returns one record per block of a well-formed file, in file
\* order, and the text of a record is all the text lines of its block, a line
\* that begins with a digit included.
C9_TextBoundaries ==
    (pc = "probe_add" /\ WellFormed(file_cues)) =>
        /\ Len(loc.matches) = Len(file_cues)
        /\ \A k \in 1..Len(file_cues) :
              k <= Len(loc.matches) =>
                 loc.matches[k] = <<file_cues[k].index, file_cues[k].start,
                                    file_cues[k].end, file_cues[k].text>>

ProbeProtocol(N, before, first_frame, last_frame) ==
    /\ \E a \in CallsOf({"effect_strip_add"}), d \in CallsOf({"delete"}) :
          /\ CallsOf({"effect_strip_add"}) = {a}
          /\ CallsOf({"delete"}) = {d}
          /\ a < d
          /\ \A n \in CallsOf({"new_effect", "assign", "duplicate"}) : d < n
          /\ calls[a].channel = Last(pre).subtitle_channel
          /\ calls[a].frame_start = first_frame
          /\ calls[a].frame_end = first_frame + Max(1, last_frame - first_frame)
          /\ Cardinality(CallsOf({"new_effect", "assign"})) = N
          /\ \A n \in CallsOf({"new_effect", "assign"}) : calls[n].channel = calls[a].result
          /\ \A k \in 1..N : sequences[Len(before) + k].channel = calls[a].result
    /\ Len(sequences) = Len(before) + N
    /\ \A k \in 1..Len(before) :
          [sequences[k] EXCEPT !.select = FALSE] = [before[k] EXCEPT !.select = FALSE]

ProbeProtocolOf(matches) ==
    ProbeProtocol(Len(matches), Last(pre).sequences,
                  ImportFrame(import_op.start_frame, parse_srt_time(matches[1][2]),
                              ImportFps),
                  ImportFrame(import_op.start_frame,
                              parse_srt_time(matches[Len(matches)][3]), ImportFps))

\* C10: an import of N cues that returned FINISHED made one placeholder strip, on
\* the requested channel, from the first cue's start frame over the batch's
\* length (one frame at least), and deleted it before it made a cue's strip;
\* the N strips made are on the channel the host gave the placeholder, and
\* the timeline holds the strips it held before and these N.
C10_ChannelProbe ==
    (Returned("import") /\ Last(returned).status = "FINISHED")
        => ProbeProtocolOf(FindAll(content))

C10_Witness ==
    /\ Returned("import")
    /\ Last(returned).status = "FINISHED"
    /\ Last(pre).sequences # <<>>
    /\ \E a \in CallsOf({"effect_strip_add"}) : calls[a].result # calls[a].channel

\* The strips that the import has made for cues are those of the first blocks of
\* the file, in file order
CreatedPrefix(matches, base) ==
    /\ Len(Placements) <= Len(matches)
    /\ \A n \in 1..Len(Placements) :
          /\ Len(sequences) = base + Len(Placements)
          /\ sequences[base + n].text = Strip(matches[n][4])
          /\ sequences[base + n].name = StripName(scene.template_name, matches[n][1])
          /\ sequences[base + n].frame_start = Placements[n].frame_start
          /\ Placements[n].frame_start =
                ImportFrame(import_op.start_frame, parse_srt_time(matches[n][2]),
                            ImportFps)

\* An import returns CANCELLED from the probe or from the loop over the cues
ImportFails ==
    /\ pc \in {"probe_add", "probe_delete", "cues"}
    /\ returned' # returned
    /\ Last(returned').status = "CANCELLED"

\* A step that calls nothing of the host and reports the import's error
ReportsOnly ==
    /\ calls' = calls
    /\ UNCHANGED hostVars
    /\ reports' = <<Report("ERROR", "Error importing SRT")>>
    /\ Last(returned').op = "import"

C12_ChannelPreserved ==
    Returned("import") => import_op.subtitle_channel = Last(pre).subtitle_channel

=============================================================================
